---- MODULE Spec2Model ----
(***************************************************************************)
(* DeepDive-AI: the branching conversation tree of src/App.tsx, its        *)
(* request/stream life cycle, the recursive layout, the viewport and the   *)
(* context lineariser of the Gemini service.                               *)
(*                                                                         *)
(* Strings are sequences of tokens (a token is a character or an opaque    *)
(* literal), so that trim(), concatenation and truthiness are computed.    *)
(* Ids (uuidv4) are drawn from a counter and never reused; 0 is null.      *)
(* Numbers that the code keeps as floats are exact rationals n/d here;     *)
(* scale is kept in thousandths (1000 is a zoom of 1).                     *)
(* Message.timestamp, Column.title and Column.inputValue are written but   *)
(* never read by any handler and are left out.                             *)
(*                                                                         *)
(* Every action is a whole handler together with the React effects that    *)
(* run before the next event: the layout effect (App.tsx:239-241) and the  *)
(* auto-focus effect (App.tsx:460-468).                                    *)
(***************************************************************************)
EXTENDS Integers, Sequences, FiniteSets, TLC

VARIABLES
    hasStarted,        \* App.tsx:117
    columns,           \* App.tsx:121   sequence of Column records
    selectedColumnId,  \* App.tsx:134
    nodeHeights,       \* App.tsx:138   id -> measured height
    pan,               \* App.tsx:151
    scale,             \* App.tsx:152   in thousandths
    dragRef,           \* App.tsx:157
    layout,            \* App.tsx:168   id -> {x, y, height}
    nodeOffsets,       \* App.tsx:169   id -> {x, y}
    nextUid,           \* the next value uuidv4() returns
    timers,            \* pending setTimeout(..., 100) callbacks, FIFO
    streams,           \* streamGeminiResponse calls that have not settled
    history,           \* the last result of buildHistoryForColumn
    gestures           \* the pointer, wheel and zoom events the viewport took, oldest first

treeVars == <<hasStarted, columns, selectedColumnId, nextUid, timers, streams>>
viewVars == <<nodeHeights, pan, scale, dragRef, layout, nodeOffsets, gestures>>
vars == <<treeVars, viewVars, history>>

-----------------------------------------------------------------------------
(* Bounds *)

MaxUid == 6
MaxChunks == 1
MaxCollapsed == 1
MaxNodes == 4
CanvasNodes == 3
LayoutNodes == 5
MaxGestures == 2
HistNodes == 3
HistMessages == 3

-----------------------------------------------------------------------------
(* Program constants *)

NODE_WIDTH == 450
NODE_GAP_X == 150
NODE_GAP_Y == 50
NODE_DEFAULT_HEIGHT == 200
ViewportW == 1200
ViewportH == 800
MinScale == 100
MaxScale == 3000
ZoomStep == 100

-----------------------------------------------------------------------------
(* Values *)

Null == 0
NullText == <<"<null>">>
User == "user"
Model == "model"
EmptyMap == [i \in {} |-> 0]

\* Map.prototype.set
MapSet(m, k, v) == [i \in DOMAIN m \cup {k} |-> IF i = k THEN v ELSE m[i]]

\* Map.prototype.delete of every key in ks
MapDelete(m, ks) == [i \in DOMAIN m \ ks |-> m[i]]

\* string.trim(): strips leading and trailing white space
RECURSIVE TrimLeft(_)
TrimLeft(s) == IF s # <<>> /\ Head(s) = " " THEN TrimLeft(Tail(s)) ELSE s

RECURSIVE TrimRight(_)
TrimRight(s) ==
    IF s # <<>> /\ s[Len(s)] = " " THEN TrimRight(SubSeq(s, 1, Len(s) - 1)) ELSE s

Trim(s) == TrimRight(TrimLeft(s))

\* JavaScript truthiness of a string | null
Truthy(s) == s # NullText /\ s # <<>>

ErrorNotice ==
    <<"\n", "\n", "[Error: Unable to fetch response. Please check your connection or API key.]">>

InputTexts == {<<>>, <<" ">>, <<"q">>}
SelectedTexts == {<<>>, <<" ">>, <<"X", " ">>}
\* the query typed after Ask...; NullText stands for the Deep Dive button
CustomQueries == {NullText, <<" ">>, <<"w">>}
ChunkTexts == {<<>>, <<"X">>}

Message(id, role, text) == [id |-> id, role |-> role, text |-> text]

RootColumn(id) ==
    [id |-> id, parentId |-> Null, parentMessageId |-> Null, contextSnippet |-> NullText,
     messages |-> <<>>, isThinking |-> FALSE, isCollapsed |-> FALSE]

-----------------------------------------------------------------------------
(* Exact arithmetic on n/d, d > 0, in lowest terms *)

AbsInt(i) == IF i < 0 THEN -i ELSE i

RECURSIVE GCD(_, _)
GCD(a, b) == IF b = 0 THEN a ELSE GCD(b, a % b)

Rat(n, d) ==
    LET g == GCD(AbsInt(n), AbsInt(d))
        sgn == IF d < 0 THEN -1 ELSE 1
    IN  [n |-> sgn * (n \div g), d |-> sgn * (d \div g)]

RInt(i) == [n |-> i, d |-> 1]

\* the factors are cancelled crosswise first, to keep the products small
RMul(a, b) ==
    LET g1 == GCD(AbsInt(a.n), b.d)
        g2 == GCD(AbsInt(b.n), a.d)
    IN  IF a.n = 0 \/ b.n = 0 THEN RInt(0)
        ELSE Rat((a.n \div g1) * (b.n \div g2), (a.d \div g2) * (b.d \div g1))

RDiv(a, b) == RMul(a, IF b.n < 0 THEN [n |-> -b.d, d |-> -b.n] ELSE [n |-> b.d, d |-> b.n])

RAdd(a, b) ==
    LET g == GCD(a.d, b.d)
    IN  Rat(a.n * (b.d \div g) + b.n * (a.d \div g), (a.d \div g) * b.d)

RSub(a, b) == RAdd(a, [n |-> -b.n, d |-> b.d])

\* the zoom factor as a number
ScaleOf(s) == Rat(s, 1000)

Point(x, y) == [x |-> x, y |-> y]
ZeroPoint == Point(RInt(0), RInt(0))

-----------------------------------------------------------------------------
(* Tree Store *)

ColIds(cols) == {cols[i].id : i \in DOMAIN cols}

HasCol(cols, id) == \E i \in DOMAIN cols : cols[i].id = id

\* columns.find(c => c.id === id): the first match; only used where HasCol holds
FindCol(cols, id) ==
    cols[CHOOSE i \in DOMAIN cols :
            cols[i].id = id /\ \A j \in 1 .. (i - 1) : cols[j].id # id]

HasMessage(col, mid) == \E k \in DOMAIN col.messages : col.messages[k].id = mid

addMessageToColumn(cols, columnId, message) ==
    [i \in DOMAIN cols |->
        IF cols[i].id = columnId
        THEN [cols[i] EXCEPT !.messages = Append(@, message)]
        ELSE cols[i]]

\* variant: a chunk replaces the text
updateLastMessageReplace(cols, columnId, textChunk) ==
    [i \in DOMAIN cols |->
        IF cols[i].id = columnId
        THEN LET msgs == cols[i].messages
                 n == Len(msgs)
             IN  IF n > 0 /\ msgs[n].role = Model
                 THEN [cols[i] EXCEPT !.messages[n].text = textChunk]
                 ELSE cols[i]
        ELSE cols[i]]

\* variant: a chunk for a column that is gone lands on the last column
updateLastMessageMutAny(cols, columnId, textChunk) ==
    [i \in DOMAIN cols |->
        IF cols[i].id = columnId \/ (~HasCol(cols, columnId) /\ i = Len(cols))
        THEN LET msgs == cols[i].messages
                 n == Len(msgs)
             IN  IF n > 0 /\ msgs[n].role = Model
                 THEN [cols[i] EXCEPT !.messages[n].text = @ \o textChunk]
                 ELSE cols[i]
        ELSE cols[i]]

\* variant: the chunk is appended to the last message whatever its role
updateLastMessageAnyRole(cols, columnId, textChunk) ==
    [i \in DOMAIN cols |->
        IF cols[i].id = columnId
        THEN LET msgs == cols[i].messages
                 n == Len(msgs)
             IN  IF n > 0
                 THEN [cols[i] EXCEPT !.messages[n].text = @ \o textChunk]
                 ELSE cols[i]
        ELSE cols[i]]

updateLastMessage(cols, columnId, textChunk) ==
    [i \in DOMAIN cols |->
        IF cols[i].id = columnId
        THEN LET msgs == cols[i].messages
                 n == Len(msgs)
             IN  IF n > 0 /\ msgs[n].role = Model
                 THEN [cols[i] EXCEPT !.messages[n].text = @ \o textChunk]
                 ELSE cols[i]
        ELSE cols[i]]

setThinking(cols, columnId, isThinking) ==
    [i \in DOMAIN cols |->
        IF cols[i].id = columnId
        THEN [cols[i] EXCEPT !.isThinking = isThinking]
        ELSE cols[i]]

handleToggleCollapse(cols, columnId) ==
    [i \in DOMAIN cols |->
        IF cols[i].id = columnId
        THEN [cols[i] EXCEPT !.isCollapsed = ~@]
        ELSE cols[i]]

\* Array.prototype.filter, keeping the order
RECURSIVE FilterSeq(_, _)
FilterSeq(s, keep) ==
    IF s = <<>> THEN <<>>
    ELSE IF Head(s).id \in keep
         THEN <<Head(s)>> \o FilterSeq(Tail(s), keep)
         ELSE FilterSeq(Tail(s), keep)

\* variant: the node alone
getDescendantsSelf(cols, id) == {id}

\* variant: the node and its children only
getDescendantsShallow(cols, id) ==
    {id} \cup {cols[i].id : i \in {j \in DOMAIN cols : cols[j].parentId = id}}

\* getDescendants of handleCloseColumn: id and everything below it
RECURSIVE getDescendants(_, _)
getDescendants(cols, id) ==
    {id} \cup UNION {getDescendants(cols, cols[i].id) :
                        i \in {j \in DOMAIN cols : cols[j].parentId = id}}

-----------------------------------------------------------------------------
(* Layout Engine, App.tsx:181-237 *)

Max(a, b) == IF a >= b THEN a ELSE b
Min(a, b) == IF a <= b THEN a ELSE b

\* columns.filter(c => c.parentId === parentId), in list order
getChildren(cols, parentId) == SelectSeq(cols, LAMBDA c : c.parentId = parentId)

\* nodeHeights.get(nodeId) || NODE_DEFAULT_HEIGHT
currentHeightOf(heights, nodeId) ==
    IF nodeId \in DOMAIN heights /\ heights[nodeId] # 0
    THEN heights[nodeId]
    ELSE NODE_DEFAULT_HEIGHT

RECURSIVE positionNode(_, _, _, _, _, _)
RECURSIVE positionChildren(_, _, _, _, _, _)

\* variant: the next sibling starts at the previous subtree's bottom, without the gap
positionChildrenNoGap(cols, heights, children, x, currentChildTopY, lay) ==
    IF children = <<>>
    THEN [top |-> currentChildTopY, layout |-> lay]
    ELSE LET r == positionNode(cols, heights, Head(children).id, x, currentChildTopY, lay)
         IN  positionChildren(cols, heights, Tail(children), x, r.bottom, r.layout)

\* children.forEach(...): returns currentChildTopY after the loop and the layout
positionChildren(cols, heights, children, x, currentChildTopY, lay) ==
    IF children = <<>>
    THEN [top |-> currentChildTopY, layout |-> lay]
    ELSE LET r == positionNode(cols, heights, Head(children).id, x, currentChildTopY, lay)
         IN  positionChildren(cols, heights, Tail(children), x,
                              r.bottom + NODE_GAP_Y, r.layout)

\* variant: the bottom of the node alone, whatever its children reach
positionNodeOwnBottom(cols, heights, nodeId, x, startY, lay) ==
    LET currentHeight == currentHeightOf(heights, nodeId)
        nodeCenterY == startY + (currentHeight \div 2)
        placed == MapSet(lay, nodeId, [x |-> x, y |-> nodeCenterY, height |-> currentHeight])
        children == getChildren(cols, nodeId)
        r == positionChildren(cols, heights, children,
                              x + NODE_WIDTH + NODE_GAP_X, startY, placed)
    IN  [bottom |-> startY + currentHeight, layout |-> r.layout]

\* variant: the bottom of the last child's subtree, whatever the node's own height
positionNodeLastChild(cols, heights, nodeId, x, startY, lay) ==
    LET currentHeight == currentHeightOf(heights, nodeId)
        nodeCenterY == startY + (currentHeight \div 2)
        placed == MapSet(lay, nodeId, [x |-> x, y |-> nodeCenterY, height |-> currentHeight])
        children == getChildren(cols, nodeId)
    IN  IF Len(children) = 0
        THEN [bottom |-> startY + currentHeight, layout |-> placed]
        ELSE LET r == positionChildren(cols, heights, children,
                                       x + NODE_WIDTH + NODE_GAP_X, startY, placed)
             IN  [bottom |-> r.top - NODE_GAP_Y, layout |-> r.layout]

\* returns the bottom of the subtree rooted at nodeId, and the layout
positionNode(cols, heights, nodeId, x, startY, lay) ==
    LET currentHeight == currentHeightOf(heights, nodeId)
        nodeCenterY == startY + (currentHeight \div 2)
        placed == MapSet(lay, nodeId, [x |-> x, y |-> nodeCenterY, height |-> currentHeight])
        children == getChildren(cols, nodeId)
    IN  IF Len(children) = 0
        THEN [bottom |-> startY + currentHeight, layout |-> placed]
        ELSE LET r == positionChildren(cols, heights, children,
                                       x + NODE_WIDTH + NODE_GAP_X, startY, placed)
                 lastChildBottom == r.top - NODE_GAP_Y
                 myBottom == startY + currentHeight
             IN  [bottom |-> Max(myBottom, lastChildBottom), layout |-> r.layout]

\* roots.forEach(...)
RECURSIVE positionRoots(_, _, _, _, _)
positionRoots(cols, heights, roots, currentRootTopY, lay) ==
    IF roots = <<>>
    THEN lay
    ELSE LET r == positionNode(cols, heights, Head(roots).id, 0, currentRootTopY, lay)
         IN  positionRoots(cols, heights, Tail(roots), r.bottom + NODE_GAP_Y, r.layout)

\* variant: the result also depends on state that is not among the inputs
calculateLayoutSkewed(cols, heights) ==
    positionRoots(cols, heights, getChildren(cols, Null), selectedColumnId, EmptyMap)

calculateLayout(cols, heights) ==
    positionRoots(cols, heights, getChildren(cols, Null), 0, EmptyMap)

-----------------------------------------------------------------------------
(* Viewport Controller: pure parts *)

offsetOf(offsets, id) == IF id \in DOMAIN offsets THEN offsets[id] ELSE ZeroPoint

\* focusNode, App.tsx:442-458: the pan that centres nodeId (nodeId is in lay)
focusTarget(lay, offsets, sc, nodeId) ==
    LET pos == lay[nodeId]
        offset == offsetOf(offsets, nodeId)
        finalX == RAdd(RInt(pos.x), offset.x)
        finalY == RAdd(RInt(pos.y), offset.y)
        s == ScaleOf(sc)
    IN  Point(RSub(RSub(Rat(ViewportW, 2), RMul(finalX, s)), RMul(Rat(NODE_WIDTH, 2), s)),
              RSub(Rat(ViewportH, 2), RMul(finalY, s)))

\* variant: the wheel step without the clamp
wheelScaleUnclamped(sc, deltaY) == sc - deltaY

\* Math.min(Math.max(0.1, scale - deltaY * 0.001), 3)
wheelScale(sc, deltaY) == Min(Max(MinScale, sc - deltaY), MaxScale)

\* variant: the world point taken at the new scale
wheelPanStale(p, sc, newSc, mouse) ==
    LET worldX == RDiv(RSub(RInt(mouse.x), p.x), ScaleOf(newSc))
        worldY == RDiv(RSub(RInt(mouse.y), p.y), ScaleOf(newSc))
    IN  Point(RSub(RInt(mouse.x), RMul(worldX, ScaleOf(newSc))),
              RSub(RInt(mouse.y), RMul(worldY, ScaleOf(newSc))))

\* handleWheel, App.tsx:388-395: the pan that keeps the world point under the mouse
wheelPan(p, sc, newSc, mouse) ==
    LET worldX == RDiv(RSub(RInt(mouse.x), p.x), ScaleOf(sc))
        worldY == RDiv(RSub(RInt(mouse.y), p.y), ScaleOf(sc))
    IN  Point(RSub(RInt(mouse.x), RMul(worldX, ScaleOf(newSc))),
              RSub(RInt(mouse.y), RMul(worldY, ScaleOf(newSc))))

-----------------------------------------------------------------------------
(* Context Linearizer, part_001:206-260 *)

HistoryEntry(role, text) == [role |-> role, text |-> text]

BranchNotice(snippet) ==
    <<"I want to branch off and discuss specifically about: \"">> \o snippet \o <<"\"">>

RECURSIVE historyPath(_, _, _)

\* variant: an unresolvable id discards the whole path
historyPathAllOrNothing(cols, currentId, path) ==
    IF currentId = Null THEN path
    ELSE IF HasCol(cols, currentId)
         THEN LET col == FindCol(cols, currentId)
              IN  historyPath(cols, col.parentId, <<col>> \o path)
         ELSE <<>>

\* the while loop: the path from the root to the target
historyPath(cols, currentId, path) ==
    IF currentId = Null THEN path
    ELSE IF HasCol(cols, currentId)
         THEN LET col == FindCol(cols, currentId)
              IN  historyPath(cols, col.parentId, <<col>> \o path)
         ELSE path

\* messages.findIndex(m => m.id === id) + 1: 0 when there is none
findIndex(messages, id) ==
    IF \E k \in DOMAIN messages : messages[k].id = id
    THEN CHOOSE k \in DOMAIN messages :
            messages[k].id = id /\ \A j \in 1 .. (k - 1) : messages[j].id # id
    ELSE 0

\* variant: every ancestor in full
relevantMessagesNoSlice(path, index) == path[index].messages

\* variant: the slice is taken also when findIndex finds nothing
relevantMessagesSliceAlways(path, index) ==
    LET col == path[index]
        isTarget == index = Len(path)
    IN  IF ~isTarget /\ index + 1 <= Len(path)
        THEN SubSeq(col.messages, 1, findIndex(col.messages, path[index + 1].parentMessageId))
        ELSE col.messages

relevantMessages(path, index) ==
    LET col == path[index]
        isTarget == index = Len(path)
    IN  IF ~isTarget /\ index + 1 <= Len(path)
        THEN LET branchIndex == findIndex(col.messages, path[index + 1].parentMessageId)
             IN  IF branchIndex # 0
                 THEN SubSeq(col.messages, 1, branchIndex)
                 ELSE col.messages
        ELSE col.messages

entriesOf(messages) ==
    [k \in DOMAIN messages |-> HistoryEntry(messages[k].role, messages[k].text)]

\* path.forEach((col, index) => ...)
RECURSIVE flattenPath(_, _, _)
flattenPath(path, index, hist) ==
    IF index > Len(path) THEN hist
    ELSE LET isTarget == index = Len(path)
             pushed == hist \o entriesOf(relevantMessages(path, index))
             withNotice ==
                 IF ~isTarget /\ index + 1 <= Len(path)
                    /\ Truthy(path[index + 1].contextSnippet)
                 THEN Append(pushed, HistoryEntry(User,
                                 BranchNotice(path[index + 1].contextSnippet)))
                 ELSE pushed
         IN  flattenPath(path, index + 1, withNotice)

buildHistoryForColumn(targetColumnId, cols) ==
    flattenPath(historyPath(cols, targetColumnId, <<>>), 1, <<>>)

-----------------------------------------------------------------------------
(* Requests: setTimeout callbacks and response streams *)

\* snapshot is the columns value the callback closed over
SendTimer(col, modelMsgId, snapshot) ==
    [kind |-> "send", col |-> col, msg |-> modelMsgId, prompt |-> <<>>,
     columns |-> snapshot]

BranchTimer(col, prompt, snapshot) ==
    [kind |-> "branch", col |-> col, msg |-> Null, prompt |-> prompt,
     columns |-> snapshot]

\* a running streamGeminiResponse: its placeholder, the chunks delivered so far and
\* its local const history, the context it sent
Stream(col, modelMsgId, hist) ==
    [col |-> col, msg |-> modelMsgId, n |-> 0, history |-> hist]

\* ids the queued branch callbacks will still draw (two each)
RECURSIVE ReservedUids(_)
ReservedUids(q) ==
    IF q = <<>> THEN 0
    ELSE (IF Head(q).kind = "branch" THEN 2 ELSE 0) + ReservedUids(Tail(q))

CanAllocate(k) == nextUid + k - 1 + ReservedUids(timers) <= MaxUid

NoDrag ==
    [type |-> "none", startX |-> 0, startY |-> 0, targetId |-> Null, initial |-> ZeroPoint]

NoHistory == [target |-> Null, result |-> <<>>]

-----------------------------------------------------------------------------
(* Effects that run after a handler, before the next event *)

\* App.tsx:239-241: setLayout(calculateLayout), after columns or nodeHeights changed
LayoutEffect == layout' = calculateLayout(columns', nodeHeights')

\* variant: the focus does not look at dragRef
FocusEffectAlways(handlerPan) ==
    pan' = IF /\ hasStarted'
              /\ Len(columns') > 0
              /\ selectedColumnId' \in DOMAIN layout'
           THEN focusTarget(layout', nodeOffsets', scale', selectedColumnId')
           ELSE handlerPan

\* variant: the focus follows the selection only, not the layout
FocusEffectSelectionOnly(handlerPan) ==
    pan' = IF /\ selectedColumnId' # selectedColumnId
              /\ hasStarted'
              /\ Len(columns') > 0
              /\ dragRef' = NoDrag
              /\ selectedColumnId' \in DOMAIN layout'
           THEN focusTarget(layout', nodeOffsets', scale', selectedColumnId')
           ELSE handlerPan

\* App.tsx:460-468 with focusNode: runs when selectedColumnId, hasStarted or layout
\* changed; handlerPan is the pan the handler itself left
FocusEffect(handlerPan) ==
    pan' = IF /\ hasStarted'
              /\ Len(columns') > 0
              /\ dragRef' = NoDrag
              /\ selectedColumnId' \in DOMAIN layout'
           THEN focusTarget(layout', nodeOffsets', scale', selectedColumnId')
           ELSE handlerPan

\* what a handler that only calls setColumns leaves alone, and the effects after it
AfterSetColumns ==
    /\ UNCHANGED <<nodeHeights, scale, dragRef, nodeOffsets, gestures, history>>
    /\ LayoutEffect
    /\ FocusEffect(pan)

-----------------------------------------------------------------------------
Init ==
    /\ hasStarted = FALSE
    /\ columns = <<RootColumn(1)>>
    /\ selectedColumnId = 1
    /\ nodeHeights = EmptyMap
    /\ pan = ZeroPoint
    /\ scale = 1000
    /\ dragRef = NoDrag
    /\ layout = calculateLayout(<<RootColumn(1)>>, EmptyMap)
    /\ nodeOffsets = EmptyMap
    /\ nextUid = 2
    /\ timers = <<>>
    /\ streams = {}
    /\ history = NoHistory
    /\ gestures = <<>>

\* App.tsx:645-681
startSession(landingInput) ==
    /\ ~hasStarted
    /\ IF Trim(landingInput) = <<>>
       THEN UNCHANGED vars
       ELSE /\ CanAllocate(2)
            /\ LET rootId == columns[1].id
                   userMsg == Message(nextUid, User, landingInput)
                   modelMsgId == nextUid + 1
               IN  /\ hasStarted' = TRUE
                   /\ columns' = setThinking(addMessageToColumn(columns, rootId, userMsg),
                                             rootId, TRUE)
                   /\ timers' = Append(timers, SendTimer(rootId, modelMsgId, columns))
                   /\ nextUid' = nextUid + 2
            /\ UNCHANGED <<selectedColumnId, streams>>
            /\ UNCHANGED <<nodeHeights, scale, dragRef, nodeOffsets, gestures, history>>
            /\ LayoutEffect
            /\ FocusEffect(ZeroPoint)

\* variant: without the isThinking guard
handleGlobalSubmitNoGuard(globalInput) ==
    /\ hasStarted
    /\ IF Trim(globalInput) = <<>> \/ selectedColumnId = Null
          \/ ~HasCol(columns, selectedColumnId)
       THEN UNCHANGED vars
       ELSE /\ CanAllocate(2)
            /\ LET targetCol == FindCol(columns, selectedColumnId)
                   userMsg == Message(nextUid, User, globalInput)
                   modelMsgId == nextUid + 1
                   c1 == setThinking(addMessageToColumn(columns, selectedColumnId, userMsg),
                                     selectedColumnId, TRUE)
               IN  /\ columns' = IF targetCol.isCollapsed
                                 THEN handleToggleCollapse(c1, selectedColumnId)
                                 ELSE c1
                   /\ timers' = Append(timers, SendTimer(selectedColumnId, modelMsgId, columns))
                   /\ nextUid' = nextUid + 2
            /\ UNCHANGED <<hasStarted, selectedColumnId, streams>>
            /\ AfterSetColumns

\* App.tsx:516-560
handleGlobalSubmit(globalInput) ==
    /\ hasStarted
    /\ IF Trim(globalInput) = <<>> \/ selectedColumnId = Null
          \/ ~HasCol(columns, selectedColumnId)
          \/ FindCol(columns, selectedColumnId).isThinking
       THEN UNCHANGED vars
       ELSE /\ CanAllocate(2)
            /\ LET targetCol == FindCol(columns, selectedColumnId)
                   userMsg == Message(nextUid, User, globalInput)
                   modelMsgId == nextUid + 1
                   c1 == setThinking(addMessageToColumn(columns, selectedColumnId, userMsg),
                                     selectedColumnId, TRUE)
               IN  /\ columns' = IF targetCol.isCollapsed
                                 THEN handleToggleCollapse(c1, selectedColumnId)
                                 ELSE c1
                   /\ timers' = Append(timers, SendTimer(selectedColumnId, modelMsgId, columns))
                   /\ nextUid' = nextUid + 2
            /\ UNCHANGED <<hasStarted, selectedColumnId, streams>>
            /\ AfterSetColumns

\* App.tsx:562-612, the synchronous part
handleBranch(sourceColumnId, sourceMessageId, selectedText, customPrompt) ==
    LET newColId == nextUid
        newColumn == [id |-> newColId, parentId |-> sourceColumnId,
                      parentMessageId |-> sourceMessageId,
                      contextSnippet |-> selectedText,
                      messages |-> <<>>, isThinking |-> FALSE, isCollapsed |-> FALSE]
        initialPrompt ==
            IF Truthy(customPrompt) THEN customPrompt
            ELSE <<"Tell me more about \"">> \o selectedText
                 \o <<"\" in the context of our previous conversation.">>
    IN  /\ columns' = Append(columns, newColumn)
        /\ selectedColumnId' = newColId
        /\ timers' = Append(timers, BranchTimer(newColId, initialPrompt, Append(columns, newColumn)))
        /\ nextUid' = nextUid + 1
        /\ UNCHANGED <<hasStarted, streams>>
        /\ AfterSetColumns

\* variant: without the length check
selectionOfNoCheck(windowText) == Trim(windowText)

\* MessageBubble handleMouseUp (part_002:30-47): the selection a mouse-up records,
\* NullText when it records none
selectionOf(windowText) ==
    LET text == Trim(windowText)
    IN  IF Len(text) > 0 THEN text ELSE NullText

\* A MessageBubble is mounted for every message of every expanded, mounted column and
\* takes mouse-up only on a model message (ChatColumn.tsx:111-131, part_002:206).
BubbleTakesSelection(columnId, messageId) ==
    /\ HasCol(columns, columnId)
    /\ columnId \in DOMAIN layout
    /\ LET col == FindCol(columns, columnId)
       IN  /\ ~col.isCollapsed
           /\ \E k \in DOMAIN col.messages :
                 /\ col.messages[k].id = messageId
                 /\ col.messages[k].role = Model
                 /\ col.messages[k].text # <<>>

\* The branch gesture: select text in a bubble (handleMouseUp), then Deep Dive
\* (handleDeepDive, part_002:73-80) or Ask... with a query (handleCustomAskSubmit,
\* part_002:82-89); both end in onBranch -> handleBranch.
branchRequest(columnId, messageId, windowText, customQuery) ==
    LET selection == selectionOf(windowText)
        accepted ==
            /\ BubbleTakesSelection(columnId, messageId)
            /\ selection # NullText
            /\ customQuery = NullText \/ Trim(customQuery) # <<>>
    IN  /\ hasStarted
        /\ IF accepted
           THEN /\ CanAllocate(3)
                /\ handleBranch(columnId, messageId, selection, customQuery)
           ELSE UNCHANGED vars

\* the callbacks handed to setTimeout (App.tsx:549-559, 582-611, 670-680)
timerFires ==
    /\ timers # <<>>
    /\ LET t == Head(timers)
       IN  IF t.kind = "branch"
           THEN LET userMsg == Message(nextUid, User, t.prompt)
                    modelMsgId == nextUid + 1
                IN  /\ columns' = setThinking(addMessageToColumn(columns, t.col, userMsg),
                                              t.col, TRUE)
                    /\ timers' = Append(Tail(timers), SendTimer(t.col, modelMsgId, t.columns))
                    /\ nextUid' = nextUid + 2
                    /\ streams' = streams
           ELSE /\ columns' = addMessageToColumn(columns, t.col, Message(t.msg, Model, <<>>))
                /\ timers' = Tail(timers)
                /\ streams' = streams \cup {Stream(t.col, t.msg,
                                                buildHistoryForColumn(t.col, t.columns))}
                /\ nextUid' = nextUid
    /\ UNCHANGED <<hasStarted, selectedColumnId>>
    /\ AfterSetColumns

\* streamGeminiResponse (part_001:282-290): one chunk of the response
streamChunk(s, text) ==
    /\ s \in streams
    /\ s.n < MaxChunks
    /\ streams' = (streams \ {s}) \cup {[s EXCEPT !.n = @ + 1]}
    /\ UNCHANGED <<hasStarted, selectedColumnId, nextUid, timers>>
    /\ IF text # <<>>
       THEN /\ columns' = updateLastMessage(columns, s.col, text)
            /\ AfterSetColumns
       ELSE UNCHANGED <<columns, viewVars, history>>

\* the stream ends; .finally clears the flag (App.tsx:556-558)
streamCompletes(s) ==
    /\ s \in streams
    /\ columns' = setThinking(columns, s.col, FALSE)
    /\ streams' = streams \ {s}
    /\ UNCHANGED <<hasStarted, selectedColumnId, nextUid, timers>>
    /\ AfterSetColumns

\* variant: a failed request leaves the flag set
streamFailsKeepsFlag(s) ==
    /\ s \in streams
    /\ columns' = updateLastMessage(columns, s.col, ErrorNotice)
    /\ streams' = streams \ {s}
    /\ UNCHANGED <<hasStarted, selectedColumnId, nextUid, timers>>
    /\ AfterSetColumns

\* the stream throws: the catch block reports through onChunk (part_001:291-294),
\* then .finally clears the flag
streamFails(s) ==
    /\ s \in streams
    /\ columns' = setThinking(updateLastMessage(columns, s.col, ErrorNotice), s.col, FALSE)
    /\ streams' = streams \ {s}
    /\ UNCHANGED <<hasStarted, selectedColumnId, nextUid, timers>>
    /\ AfterSetColumns

\* App.tsx:614-643; the close button exists on mounted columns with a parent
\* (App.tsx:787, 808)
handleCloseColumn(columnId) ==
    /\ hasStarted
    /\ HasCol(columns, columnId)
    /\ columnId \in DOMAIN layout
    /\ FindCol(columns, columnId).parentId # Null
    /\ LET toDelete == getDescendants(columns, columnId)
           col == FindCol(columns, columnId)
       IN  /\ columns' = FilterSeq(columns, ColIds(columns) \ toDelete)
           /\ nodeHeights' = MapDelete(nodeHeights, toDelete)
           /\ nodeOffsets' = MapDelete(nodeOffsets, toDelete)
           /\ selectedColumnId' =
                 IF selectedColumnId \in toDelete
                 THEN (IF col.parentId # Null THEN col.parentId ELSE columns[1].id)
                 ELSE selectedColumnId
    /\ UNCHANGED <<hasStarted, nextUid, timers, streams, scale, dragRef, gestures, history>>
    /\ LayoutEffect
    /\ FocusEffect(pan)

\* the Reset button, App.tsx:742
reset ==
    /\ hasStarted
    /\ hasStarted' = FALSE
    /\ columns' = <<columns[1]>>
    /\ UNCHANGED <<selectedColumnId, nextUid, timers, streams>>
    /\ AfterSetColumns

\* ChatColumn onClick -> onSelect = setSelectedColumnId (ChatColumn.tsx:53, App.tsx:807)
selectColumn(columnId) ==
    /\ hasStarted
    /\ HasCol(columns, columnId)
    /\ columnId \in DOMAIN layout
    /\ selectedColumnId' = columnId
    /\ UNCHANGED <<hasStarted, columns, nextUid, timers, streams>>
    /\ UNCHANGED <<nodeHeights, scale, dragRef, layout, nodeOffsets, gestures, history>>
    /\ IF columnId # selectedColumnId THEN FocusEffect(pan) ELSE pan' = pan

\* header double click and the collapse buttons (ChatColumn.tsx:73-77, 148)
toggleCollapse(columnId) ==
    /\ hasStarted
    /\ HasCol(columns, columnId)
    /\ columnId \in DOMAIN layout
    /\ \/ FindCol(columns, columnId).isCollapsed
       \/ Cardinality({i \in DOMAIN columns : columns[i].isCollapsed}) < MaxCollapsed
    /\ columns' = handleToggleCollapse(columns, columnId)
    /\ UNCHANGED <<hasStarted, selectedColumnId, nextUid, timers, streams>>
    /\ AfterSetColumns

-----------------------------------------------------------------------------
(* Viewport Controller: handlers *)

HeightValues == {40, 300}
\* clientX, clientY of a pointer event
Pointers == {[x |-> 0, y |-> 400], [x |-> 600, y |-> 0]}
WheelDeltas == {-2500, -100, 100, 1000}
Buttons == {0, 1, 2}

\* variant: the new height is stored but the layout keeps the result of the old one
handleNodeResizeStaleLayout(id, height) ==
    /\ hasStarted
    /\ HasCol(columns, id)
    /\ id \in DOMAIN layout
    /\ LET prev == IF id \in DOMAIN nodeHeights THEN nodeHeights[id] ELSE 0
       IN  IF AbsInt(prev - height) < 2
           THEN UNCHANGED vars
           ELSE /\ nodeHeights' = MapSet(nodeHeights, id, height)
                /\ UNCHANGED <<treeVars, scale, dragRef, nodeOffsets, gestures, history>>
                /\ layout' = layout
                /\ FocusEffect(pan)

\* App.tsx:140-148, called by the ResizeObserver of a mounted ChatColumn
handleNodeResize(id, height) ==
    /\ hasStarted
    /\ HasCol(columns, id)
    /\ id \in DOMAIN layout
    /\ LET prev == IF id \in DOMAIN nodeHeights THEN nodeHeights[id] ELSE 0
       IN  IF AbsInt(prev - height) < 2
           THEN UNCHANGED vars
           ELSE /\ nodeHeights' = MapSet(nodeHeights, id, height)
                /\ UNCHANGED <<treeVars, scale, dragRef, nodeOffsets, gestures, history>>
                /\ LayoutEffect
                /\ FocusEffect(pan)

\* App.tsx:349-362; onColumn: the target is inside a .chat-column-container
handleMouseDown(button, onColumn, clientX, clientY) ==
    /\ hasStarted
    /\ Len(gestures) < MaxGestures
    /\ IF (button = 0 \/ button = 1) /\ ~onColumn
       THEN /\ dragRef' = [type |-> "canvas", startX |-> clientX, startY |-> clientY,
                           targetId |-> Null, initial |-> pan]
            /\ gestures' = Append(gestures, "pan")
            /\ UNCHANGED <<treeVars, nodeHeights, pan, scale, layout, nodeOffsets, history>>
       ELSE UNCHANGED vars

\* App.tsx:364-378, mouse-down on the header of a mounted column
handleNodeDragStart(columnId, clientX, clientY) ==
    /\ hasStarted
    /\ Len(gestures) < MaxGestures
    /\ HasCol(columns, columnId)
    /\ columnId \in DOMAIN layout
    /\ dragRef' = [type |-> "node", startX |-> clientX, startY |-> clientY,
                   targetId |-> columnId, initial |-> offsetOf(nodeOffsets, columnId)]
    /\ gestures' = Append(gestures, "drag")
    /\ UNCHANGED <<treeVars, nodeHeights, pan, scale, layout, nodeOffsets, history>>

\* App.tsx:380-399
handleWheel(deltaY, clientX, clientY) ==
    /\ hasStarted
    /\ Len(gestures) < MaxGestures
    /\ LET newScale == wheelScale(scale, deltaY)
       IN  /\ scale' = newScale
           /\ pan' = wheelPan(pan, scale, newScale, Point(clientX, clientY))
    /\ gestures' = Append(gestures, "wheel")
    /\ UNCHANGED <<treeVars, nodeHeights, dragRef, layout, nodeOffsets, history>>

\* variant: a node follows the pointer in screen pixels
handleMouseMoveScreenDelta(clientX, clientY) ==
    LET dx == clientX - dragRef.startX
        dy == clientY - dragRef.startY
    IN  IF dragRef.type = "canvas"
        THEN /\ pan' = Point(RAdd(dragRef.initial.x, RInt(dx)),
                             RAdd(dragRef.initial.y, RInt(dy)))
             /\ UNCHANGED <<treeVars, nodeHeights, scale, dragRef, layout, nodeOffsets,
                            gestures, history>>
        ELSE IF dragRef.type = "node"
        THEN LET newOffset == Point(RAdd(dragRef.initial.x, RInt(dx)),
                                    RAdd(dragRef.initial.y, RInt(dy)))
             IN  /\ nodeOffsets' = MapSet(nodeOffsets, dragRef.targetId, newOffset)
                 /\ UNCHANGED <<treeVars, nodeHeights, pan, scale, dragRef, layout,
                                gestures, history>>
        ELSE UNCHANGED vars

\* variant: a canvas drag adds the displacement to the pan of the moment
handleMouseMoveFromCurrentPan(clientX, clientY) ==
    LET dx == clientX - dragRef.startX
        dy == clientY - dragRef.startY
    IN  IF dragRef.type = "canvas"
        THEN /\ pan' = Point(RAdd(pan.x, RInt(dx)), RAdd(pan.y, RInt(dy)))
             /\ UNCHANGED <<treeVars, nodeHeights, scale, dragRef, layout, nodeOffsets,
                            gestures, history>>
        ELSE IF dragRef.type = "node"
        THEN LET worldDx == RDiv(RInt(dx), ScaleOf(scale))
                 worldDy == RDiv(RInt(dy), ScaleOf(scale))
                 newOffset == Point(RAdd(dragRef.initial.x, worldDx),
                                    RAdd(dragRef.initial.y, worldDy))
             IN  /\ nodeOffsets' = MapSet(nodeOffsets, dragRef.targetId, newOffset)
                 /\ UNCHANGED <<treeVars, nodeHeights, pan, scale, dragRef, layout,
                                gestures, history>>
        ELSE UNCHANGED vars

\* App.tsx:402-426, the window mousemove listener
handleMouseMove(clientX, clientY) ==
    LET dx == clientX - dragRef.startX
        dy == clientY - dragRef.startY
    IN  IF dragRef.type = "canvas"
        THEN /\ pan' = Point(RAdd(dragRef.initial.x, RInt(dx)),
                             RAdd(dragRef.initial.y, RInt(dy)))
             /\ UNCHANGED <<treeVars, nodeHeights, scale, dragRef, layout, nodeOffsets,
                            gestures, history>>
        ELSE IF dragRef.type = "node"
        THEN LET worldDx == RDiv(RInt(dx), ScaleOf(scale))
                 worldDy == RDiv(RInt(dy), ScaleOf(scale))
                 newOffset == Point(RAdd(dragRef.initial.x, worldDx),
                                    RAdd(dragRef.initial.y, worldDy))
             IN  /\ nodeOffsets' = MapSet(nodeOffsets, dragRef.targetId, newOffset)
                 /\ UNCHANGED <<treeVars, nodeHeights, pan, scale, dragRef, layout,
                                gestures, history>>
        ELSE UNCHANGED vars

\* App.tsx:428-431, the window mouseup listener
handleMouseUp ==
    /\ dragRef' = NoDrag
    /\ UNCHANGED <<treeVars, nodeHeights, pan, scale, layout, nodeOffsets, gestures, history>>

\* the - and + buttons, App.tsx:736-738
zoomOut ==
    /\ hasStarted
    /\ Len(gestures) < MaxGestures
    /\ scale' = Max(MinScale, scale - ZoomStep)
    /\ gestures' = Append(gestures, "zoom")
    /\ UNCHANGED <<treeVars, nodeHeights, pan, dragRef, layout, nodeOffsets, history>>

zoomIn ==
    /\ hasStarted
    /\ Len(gestures) < MaxGestures
    /\ scale' = Min(MaxScale, scale + ZoomStep)
    /\ gestures' = Append(gestures, "zoom")
    /\ UNCHANGED <<treeVars, nodeHeights, pan, dragRef, layout, nodeOffsets, history>>

-----------------------------------------------------------------------------
(* The request life cycle *)

\* every id uuidv4 has returned so far
AllUids == 1 .. (nextUid - 1)

Next ==
    \/ \E t \in InputTexts : startSession(t)
    \/ \E t \in InputTexts : handleGlobalSubmit(t)
    \/ \E c \in ColIds(columns), m \in AllUids, t \in SelectedTexts, q \in CustomQueries :
          branchRequest(c, m, t, q)
    \/ timerFires
    \/ \E s \in streams, t \in ChunkTexts : streamChunk(s, t)
    \/ \E s \in streams : streamCompletes(s)
    \/ \E s \in streams : streamFails(s)
    \/ \E c \in ColIds(columns) : handleCloseColumn(c)
    \/ reset
    \/ \E c \in ColIds(columns) : selectColumn(c)
    \/ \E c \in ColIds(columns) : toggleCollapse(c)

Spec == Init /\ [][Next]_vars

-----------------------------------------------------------------------------
(* A canvas that already holds a tree: every tree of n columns that branching *)
(* can build (the root first, every parent before its children, every branch *)
(* forked at the parent's answer), settled and idle; the columns in measured  *)
(* have reported their height (ChatColumn.tsx:36-47).  The columns took the   *)
(* ids 1 .. n; their messages carry ids of their own, above every bound.     *)

SettledColumn(id, parentId) ==
    [id |-> id, parentId |-> parentId,
     parentMessageId |-> IF parentId = Null THEN Null ELSE 10 * parentId + 2,
     contextSnippet |-> IF parentId = Null THEN NullText ELSE <<"X">>,
     messages |-> <<Message(10 * id + 1, User, <<"q">>),
                    Message(10 * id + 2, Model, <<"X">>)>>,
     isThinking |-> FALSE, isCollapsed |-> FALSE]

ParentMaps(n) ==
    {f \in [1 .. n -> 0 .. (n - 1)] : \A k \in 1 .. n : f[k] < k /\ (f[k] = 0 <=> k = 1)}

TreeOf(n, f) == [k \in 1 .. n |-> SettledColumn(k, f[k])]

InitCanvas(n, selectable, measured) ==
    /\ hasStarted = TRUE
    /\ \E f \in ParentMaps(n) : columns = TreeOf(n, f)
    /\ selectedColumnId \in selectable
    /\ nodeHeights = [k \in measured |-> 300]
    /\ scale = 1000
    /\ dragRef = NoDrag
    /\ layout = calculateLayout(columns, nodeHeights)
    /\ nodeOffsets = EmptyMap
    /\ pan = focusTarget(layout, nodeOffsets, scale, selectedColumnId)
    /\ nextUid = n + 1
    /\ timers = <<>>
    /\ streams = {}
    /\ history = NoHistory
    /\ gestures = <<>>

\* the layout under every assignment of measured heights (even ones, so that the
\* centre y = startY + height / 2 is an integer)
InitLayout == InitCanvas(LayoutNodes, {1}, {})

NextLayout ==
    \E c \in ColIds(columns), h \in HeightValues : handleNodeResize(c, h)

SpecLayout == InitLayout /\ [][NextLayout]_vars

\* closing subtrees of a measured canvas whose columns were dragged
InitClose == InitCanvas(MaxNodes, 1 .. MaxNodes, 1 .. MaxNodes)

NextClose ==
    \/ \E c \in ColIds(columns) : handleNodeDragStart(c, 0, 0)
    \/ handleMouseMove(600, 400)
    \/ handleMouseUp
    \/ \E c \in ColIds(columns) : handleCloseColumn(c)

SpecClose == InitClose /\ [][NextClose]_vars

\* the viewport of a running session
InitView == InitCanvas(2, {1, 2}, {1, 2})

NextView ==
    \/ \E d \in WheelDeltas, p \in Pointers : handleWheel(d, p.x, p.y)
    \/ zoomIn
    \/ zoomOut
    \/ \E b \in Buttons, on \in BOOLEAN, p \in Pointers : handleMouseDown(b, on, p.x, p.y)
    \/ \E c \in ColIds(columns), p \in Pointers : handleNodeDragStart(c, p.x, p.y)
    \/ \E p \in Pointers : handleMouseMove(p.x, p.y)
    \/ handleMouseUp
    \/ \E c \in ColIds(columns) : selectColumn(c)

SpecView == InitView /\ [][NextView]_vars

\* a canvas in use: branching, closing, resetting and measuring
InitUse == InitCanvas(CanvasNodes, 1 .. CanvasNodes, 1 .. CanvasNodes)

MessageIds(cols) == UNION {{cols[i].messages[k].id : k \in DOMAIN cols[i].messages} :
                             i \in DOMAIN cols}

NextUse ==
    \/ \E c \in ColIds(columns), m \in MessageIds(columns) :
          branchRequest(c, m, <<"X", " ">>, NullText)
    \/ timerFires
    \/ \E s \in streams : streamCompletes(s)
    \/ \E c \in ColIds(columns) : handleCloseColumn(c)
    \/ reset
    \/ \E c \in ColIds(columns) : handleNodeResize(c, 40)
    \/ \E c \in ColIds(columns) : selectColumn(c)

SpecUse == InitUse /\ [][NextUse]_vars

\* dragging while the columns are measured and selected
InitFocus == InitCanvas(2, {1, 2}, {1, 2})

NextFocus ==
    \/ \E p \in Pointers : handleMouseDown(0, FALSE, p.x, p.y)
    \/ \E c \in ColIds(columns), p \in Pointers : handleNodeDragStart(c, p.x, p.y)
    \/ \E p \in Pointers : handleMouseMove(p.x, p.y)
    \/ handleMouseUp
    \/ \E c \in ColIds(columns), h \in HeightValues : handleNodeResize(c, h)
    \/ \E c \in ColIds(columns) : selectColumn(c)

SpecFocus == InitFocus /\ [][NextFocus]_vars

-----------------------------------------------------------------------------
(* The Context Linearizer on drawn trees: up to HistNodes columns, each with  *)
(* 0, 1 or HistMessages messages (user and model alternating, every text its  *)
(* own), forked at any of the HistMessages positions of the parent (a position*)
(* the parent does not have is a dangling parentMessageId), with or without a *)
(* recorded span.                                                            *)

MessageCounts == {0, 1, HistMessages}

\* an id no column has: columns.find(c => c.id === currentId) yields undefined for it
MissingId == HistNodes + 1

DrawnMessage(colId, k) ==
    Message(10 * colId + k, IF k % 2 = 1 THEN User ELSE Model, <<ToString(10 * colId + k)>>)

DrawnColumn(id, parentId, forkAt, snippet, count) ==
    [id |-> id, parentId |-> parentId,
     parentMessageId |-> IF parentId = Null THEN Null ELSE 10 * parentId + forkAt,
     contextSnippet |-> IF parentId = Null THEN NullText ELSE snippet,
     messages |-> [k \in 1 .. count |-> DrawnMessage(id, k)],
     isThinking |-> FALSE, isCollapsed |-> FALSE]

InitHistory ==
    /\ hasStarted = TRUE
    /\ \E n \in 1 .. HistNodes :
       \E f \in ParentMaps(n) :
       \E forkAt \in [1 .. n -> 1 .. (HistMessages + 1)] :
       \E snippet \in [1 .. n -> {NullText, <<"X">>}] :
       \E count \in [1 .. n -> MessageCounts] :
       \E topParent \in {Null, MissingId} :
          /\ forkAt[1] = 1
          /\ topParent = Null => snippet[1] = NullText
          /\ columns = [k \in 1 .. n |->
                          DrawnColumn(k, IF k = 1 THEN topParent ELSE f[k],
                                      forkAt[k], snippet[k], count[k])]
    /\ selectedColumnId = 1
    /\ nodeHeights = EmptyMap
    /\ scale = 1000
    /\ dragRef = NoDrag
    /\ layout = calculateLayout(columns, EmptyMap)
    /\ nodeOffsets = EmptyMap
    /\ pan = IF selectedColumnId \in DOMAIN layout
            THEN focusTarget(layout, nodeOffsets, scale, selectedColumnId)
            ELSE ZeroPoint
    /\ nextUid = 10 * HistNodes + HistMessages + 1
    /\ timers = <<>>
    /\ streams = {}
    /\ history = NoHistory
    /\ gestures = <<>>

\* streamGeminiResponse, part_001:270: const history = buildHistoryForColumn(...)
linearize(targetColumnId) ==
    /\ history = NoHistory
    /\ history' = [target |-> targetColumnId,
                   result |-> buildHistoryForColumn(targetColumnId, columns)]
    /\ UNCHANGED <<treeVars, viewVars>>

NextHistory == \E c \in ColIds(columns) \cup {MissingId} : linearize(c)

SpecHistory == InitHistory /\ [][NextHistory]_vars


-----------------------------------------------------------------------------
(* A drawn canvas with gestures, measurements and Reset *)

NextRefocus == NextFocus \/ reset

SpecRefocus == InitFocus /\ [][NextRefocus]_vars

-----------------------------------------------------------------------------
(* Minimap, App.tsx:23-113 *)

MinimapPadding == 500
MapW == 200
MapH == 150

RLeq(a, b) == a.n * b.d <= b.n * a.d

RMinOf(S) == CHOOSE m \in S : \A o \in S : RLeq(m, o)
RMaxOf(S) == CHOOSE m \in S : \A o \in S : RLeq(o, m)

\* x and y of the loop body: the left and the top edge of a node in world coordinates
minimapX(lay, offsets, id) == RAdd(RInt(lay[id].x), offsetOf(offsets, id).x)
minimapY(lay, offsets, id) ==
    RSub(RAdd(RInt(lay[id].y), offsetOf(offsets, id).y), Rat(lay[id].height, 2))

\* Math.min(mapW / worldW, mapH / worldH)
minimapRatio(worldW, worldH) ==
    LET ratioX == RDiv(RInt(MapW), worldW)
        ratioY == RDiv(RInt(MapH), worldH)
    IN  IF RLeq(ratioX, ratioY) THEN ratioX ELSE ratioY

\* the world box of the nodes, widened by padding on every side
worldBox(lay, offsets, padding) ==
    LET ids == DOMAIN lay
    IN  [minX |-> RSub(RMinOf({minimapX(lay, offsets, id) : id \in ids}), RInt(padding)),
         maxX |-> RAdd(RMaxOf({RAdd(minimapX(lay, offsets, id), RInt(NODE_WIDTH))
                                 : id \in ids}),
                       RInt(padding)),
         minY |-> RSub(RMinOf({minimapY(lay, offsets, id) : id \in ids}), RInt(padding)),
         maxY |-> RAdd(RMaxOf({RAdd(minimapY(lay, offsets, id), RInt(lay[id].height))
                                 : id \in ids}),
                       RInt(padding))]

\* variant: the bounds of the layout positions, without the manual offsets
worldBoundsNoOffsets(lay, offsets) == worldBox(lay, EmptyMap, MinimapPadding)

\* App.tsx:32-50: Calculate World Bounds, Add padding to bounds
worldBounds(lay, offsets) == worldBox(lay, offsets, MinimapPadding)

\* what the component renders: nothing, or the node rectangles in map pixels
Minimap(lay, offsets) ==
    IF DOMAIN lay = {}
    THEN [rendered |-> FALSE]
    ELSE LET ids == DOMAIN lay
             bounds == worldBounds(lay, offsets)
             minX == bounds.minX
             minY == bounds.minY
             worldW == RSub(bounds.maxX, minX)
             worldH == RSub(bounds.maxY, minY)
             ratio == minimapRatio(worldW, worldH)
             renderW == RMul(worldW, ratio)
             renderH == RMul(worldH, ratio)
             offsetX == RDiv(RSub(RInt(MapW), renderW), RInt(2))
             offsetY == RDiv(RSub(RInt(MapH), renderH), RInt(2))
         IN  [rendered |-> TRUE, worldW |-> worldW, worldH |-> worldH, ratio |-> ratio,
              nodes |-> [id \in ids |->
                  [left |-> RAdd(offsetX, RMul(RSub(minimapX(lay, offsets, id), minX), ratio)),
                   top |-> RAdd(offsetY, RMul(RSub(minimapY(lay, offsets, id), minY), ratio)),
                   width |-> RMul(RInt(NODE_WIDTH), ratio),
                   height |-> RMul(RInt(lay[id].height), ratio)]]]

-----------------------------------------------------------------------------
(* The Layout Engine on node lists with several roots: Column.parentId may be null
   for any node (part_000), and calculateLayout stacks every root (App.tsx:227-234) *)

ForestNodes == 4

ForestMaps(n) == {f \in [1 .. n -> 0 .. (n - 1)] : \A k \in 1 .. n : f[k] < k}

InitForest ==
    /\ hasStarted = TRUE
    /\ \E f \in ForestMaps(ForestNodes) : columns = TreeOf(ForestNodes, f)
    /\ selectedColumnId = 1
    /\ nodeHeights = EmptyMap
    /\ scale = 1000
    /\ dragRef = NoDrag
    /\ layout = calculateLayout(columns, nodeHeights)
    /\ nodeOffsets = EmptyMap
    /\ pan = focusTarget(layout, nodeOffsets, scale, selectedColumnId)
    /\ nextUid = ForestNodes + 1
    /\ timers = <<>>
    /\ streams = {}
    /\ history = NoHistory
    /\ gestures = <<>>

NextForest ==
    \E c \in ColIds(columns), h \in HeightValues : handleNodeResize(c, h)

SpecForest == InitForest /\ [][NextForest]_vars

-----------------------------------------------------------------------------
(* The request life cycle under the scheduling of timers and of the provider *)

\* the oldest queued setTimeout callback has run: it left the queue, and a branch
\* callback queued its send callback (timerFires is the only step that does this)
timerRuns ==
    /\ timers # <<>>
    /\ LET t == Head(timers)
       IN  timers' = IF t.kind = "branch"
                     THEN Append(Tail(timers), SendTimer(t.col, nextUid + 1, t.columns))
                     ELSE Tail(timers)

\* the request that streams into placeholder msg has signalled completion or failure:
\* it is no longer running (streamCompletes and streamFails are the only such steps)
requestSettles(msg) ==
    \E s \in streams : s.msg = msg /\ streams' = streams \ {s}

\* a queued callback runs after its delay; the provider settles every request
Fairness ==
    /\ WF_timers(timerRuns)
    /\ \A msg \in 1 .. MaxUid : WF_streams(requestSettles(msg))

SpecLive == Init /\ [][Next]_vars /\ Fairness
-----------------------------------------------------------------------------
(* Properties *)

\* the proper ancestors of id in cols, by at most fuel parent links
RECURSIVE AncestorsOf(_, _, _)
AncestorsOf(cols, id, fuel) ==
    IF fuel = 0 \/ ~HasCol(cols, id) \/ FindCol(cols, id).parentId = Null
    THEN {}
    ELSE {FindCol(cols, id).parentId}
         \cup AncestorsOf(cols, FindCol(cols, id).parentId, fuel - 1)

Related(cols, a, b) ==
    \/ a \in AncestorsOf(cols, b, Len(cols))
    \/ b \in AncestorsOf(cols, a, Len(cols))

RectTop(r) == r.y - (r.height \div 2)
RectBottom(r) == r.y + (r.height \div 2)

\* C1: under every tree shape and every assignment of measured heights, two distinct
\* nodes of the layout with the same x that are not ancestor and descendant have
\* disjoint vertical intervals [y - height/2, y + height/2].
C1_NoVerticalOverlap ==
    \A a \in DOMAIN layout, b \in DOMAIN layout :
        (a # b /\ layout[a].x = layout[b].x /\ ~Related(columns, a, b))
        => \/ RectBottom(layout[a]) < RectTop(layout[b])
           \/ RectBottom(layout[b]) < RectTop(layout[a])

\* two cousins share a column, one of them below an uncle whose measured subtree is
\* taller than the uncle itself, and both measured heights occur
C1_CousinsUnderTallSubtree ==
    \E a \in DOMAIN layout, b \in DOMAIN layout :
        /\ a # b
        /\ layout[a].x = layout[b].x
        /\ FindCol(columns, a).parentId # FindCol(columns, b).parentId
        /\ layout[a].height = 300
        /\ layout[FindCol(columns, a).parentId].height = 40
        /\ layout[b].height = NODE_DEFAULT_HEIGHT
        /\ RectTop(layout[b]) > RectBottom(layout[a])

\* C2 helpers: the path of id is well formed when every ancestor exists and every
\* parentMessageId on it names a message of the parent
RECURSIVE PathWellFormed(_, _)
PathWellFormed(cols, id) ==
    /\ HasCol(cols, id)
    /\ LET col == FindCol(cols, id)
       IN  \/ col.parentId = Null
           \/ /\ HasCol(cols, col.parentId)
              /\ HasMessage(FindCol(cols, col.parentId), col.parentMessageId)
              /\ PathWellFormed(cols, col.parentId)

\* what precedes col's own messages: the ancestors' messages up to each fork, each
\* followed by the notice quoting the span of the branch when one is recorded
RECURSIVE ContextBefore(_, _)
ContextBefore(cols, col) ==
    IF col.parentId = Null THEN <<>>
    ELSE LET p == FindCol(cols, col.parentId)
             k == CHOOSE j \in DOMAIN p.messages : p.messages[j].id = col.parentMessageId
             upToFork == [j \in 1 .. k |-> [role |-> p.messages[j].role,
                                            text |-> p.messages[j].text]]
             notice == IF col.contextSnippet # NullText
                       THEN <<[role |-> User, text |-> BranchNotice(col.contextSnippet)]>>
                       ELSE <<>>
         IN  ContextBefore(cols, p) \o upToFork \o notice

ExpectedHistory(cols, id) ==
    LET col == FindCol(cols, id)
    IN  ContextBefore(cols, col)
        \o [j \in DOMAIN col.messages |-> [role |-> col.messages[j].role,
                                           text |-> col.messages[j].text]]

\* C2: for a target whose ancestors all exist and whose parentMessageIds all name a
\* message of the parent, buildHistoryForColumn returns, root first, each ancestor's
\* messages up to and including the fork, then the notice for the recorded span, and
\* last all of the target's messages in order.
C2_HistoryIsForkPrefixes ==
    (history.target # Null /\ PathWellFormed(columns, history.target))
    => history.result = ExpectedHistory(columns, history.target)

\* a linearised target two levels deep, forked with a recorded span at a message that
\* is not the parent's last
C2_DeepForkLinearised ==
    /\ history.target # Null
    /\ PathWellFormed(columns, history.target)
    /\ LET col == FindCol(columns, history.target)
       IN  /\ col.parentId # Null
           /\ col.contextSnippet # NullText
           /\ col.messages # <<>>
           /\ LET p == FindCol(columns, col.parentId)
              IN  /\ p.parentId # Null
                  /\ p.messages[Len(p.messages)].id # col.parentMessageId

\* C3: at every moment at most one response stream is active per node.
C3_OneStreamPerNode ==
    \A s1 \in streams, s2 \in streams : s1.col = s2.col => s1 = s2

C5_SelectedExists == HasCol(columns, selectedColumnId)

\* the subtree of id: id and every node that has id among its ancestors
SubtreeOf(cols, id) ==
    {d \in ColIds(cols) : d = id \/ id \in AncestorsOf(cols, d, Len(cols))}

\* C6: closing a node removes exactly the node and its descendants from the tree,
\* exactly their entries from the height map and from the offset map, and moves the
\* selection to the closed node's parent if it pointed at a removed node, leaving it
\* alone otherwise.
C6_CloseRemovesExactlySubtree ==
    [][\A c \in ColIds(columns) :
          handleCloseColumn(c) =>
             LET gone == SubtreeOf(columns, c)
             IN  /\ columns' = SelectSeq(columns, LAMBDA col : col.id \notin gone)
                 /\ nodeHeights' = [k \in DOMAIN nodeHeights \ gone |-> nodeHeights[k]]
                 /\ nodeOffsets' = [k \in DOMAIN nodeOffsets \ gone |-> nodeOffsets[k]]
                 /\ selectedColumnId' = IF selectedColumnId \in gone
                                        THEN FindCol(columns, c).parentId
                                        ELSE selectedColumnId]_vars

\* a closable node with two levels of descendants, the selection on a descendant,
\* measured heights for all of them and dragged offsets inside and outside the subtree
C6_DeepSubtreeClosable ==
    \E c \in ColIds(columns) :
        /\ hasStarted
        /\ c \in DOMAIN layout
        /\ FindCol(columns, c).parentId # Null
        /\ LET gone == SubtreeOf(columns, c)
           IN  /\ \E d \in gone : d # c /\ FindCol(columns, d).parentId # c
               /\ selectedColumnId \in gone \ {c}
               /\ gone \subseteq DOMAIN nodeHeights
               /\ DOMAIN nodeHeights \ gone # {}
               /\ DOMAIN nodeOffsets \cap gone # {}
               /\ DOMAIN nodeOffsets \ gone # {}

\* C7: a chunk, the completion or the failure of a stream whose node is no longer in
\* the tree leaves the tree unchanged: no text is added to any node.
C7_LateChunkDropped ==
    [][\A s \in streams :
          (/\ ~HasCol(columns, s.col)
           /\ \/ \E t \in ChunkTexts : streamChunk(s, t)
              \/ streamCompletes(s)
              \/ streamFails(s))
          => columns' = columns]_vars

\* a stream that can still deliver a chunk, its node closed, while the tree holds an
\* answer a misdirected chunk would extend
C7_StreamOfClosedNode ==
    \E s \in streams :
        /\ ~HasCol(columns, s.col)
        /\ s.n < MaxChunks
        /\ \E i \in DOMAIN columns :
              /\ columns[i].messages # <<>>
              /\ columns[i].messages[Len(columns[i].messages)].role = Model

\* C8: when the stream of a node of the tree fails, the error notice is appended to
\* the assistant message that stream was filling, the node's isThinking is cleared,
\* and every other node is unchanged.
C8_FailureReportedToOwner ==
    [][\A s \in streams :
          (streamFails(s) /\ HasCol(columns, s.col)) =>
             \A i \in DOMAIN columns :
                IF columns[i].id = s.col
                THEN /\ columns'[i].isThinking = FALSE
                     /\ \E k \in DOMAIN columns[i].messages :
                           /\ columns[i].messages[k].id = s.msg
                           /\ columns'[i].messages =
                                 [columns[i].messages EXCEPT ![k].text = @ \o ErrorNotice]
                ELSE columns'[i] = columns[i]]_vars

\* C9: a branch request whose selected span is empty once trimmed, or whose source
\* message is not a message of the source node, creates no node and leaves the tree
\* and the selection unchanged: no step that changes either of them is such a request.
C9_BadBranchRejected ==
    [][\/ UNCHANGED <<columns, selectedColumnId>>
       \/ \A c \in ColIds(columns), m \in AllUids, t \in SelectedTexts :
             (Trim(t) = <<>> \/ ~HasMessage(FindCol(columns, c), m))
             => \A q \in CustomQueries : ~branchRequest(c, m, t, q)]_vars

\* an answer is on screen to select from, and a branch from it is not held back by a
\* bound: only the span decides
C9_BubbleOpenToBranch ==
    /\ hasStarted
    /\ CanAllocate(3)
    /\ \E c \in ColIds(columns), m \in AllUids : BubbleTakesSelection(c, m)

\* C10: handleWheel with the pointer at p maps the world point that was under p,
\* (p - pan) / scale, back to p: world * scale' + pan' = p, also when scale' is
\* clamped to the end of the range.
C10_ZoomKeepsPointer ==
    [][\A d \in WheelDeltas, p \in Pointers :
          handleWheel(d, p.x, p.y) =>
             LET worldX == RDiv(RSub(RInt(p.x), pan.x), ScaleOf(scale))
                 worldY == RDiv(RSub(RInt(p.y), pan.y), ScaleOf(scale))
             IN  /\ RAdd(RMul(worldX, ScaleOf(scale')), pan'.x) = RInt(p.x)
                 /\ RAdd(RMul(worldY, ScaleOf(scale')), pan'.y) = RInt(p.y)]_vars

\* the last event was a wheel step that clamped the scale at the upper limit and
\* moved the pan away from where the focus had put it
C10_WheelClampedAtLimit ==
    /\ gestures # <<>>
    /\ gestures[Len(gestures)] = "wheel"
    /\ scale = MaxScale
    /\ pan # focusTarget(layout, nodeOffsets, 1000, selectedColumnId)

\* C11: a node drag records the node's offset at drag start, and every pointer move
\* of the drag sets the node's offset to that record plus the pointer's displacement
\* since drag start divided by the scale; the other offsets, the pan and the scale
\* are left as they were.
C11_NodeDragOffset ==
    [][/\ \A c \in ColIds(columns), p \in Pointers :
             handleNodeDragStart(c, p.x, p.y)
             => /\ dragRef'.initial = offsetOf(nodeOffsets, c)
                /\ dragRef'.startX = p.x /\ dragRef'.startY = p.y
                /\ nodeOffsets' = nodeOffsets /\ pan' = pan /\ scale' = scale
       /\ \A p \in Pointers :
             (dragRef.type = "node" /\ handleMouseMove(p.x, p.y))
             => /\ nodeOffsets'[dragRef.targetId] =
                      Point(RAdd(dragRef.initial.x,
                                 RDiv(RInt(p.x - dragRef.startX), ScaleOf(scale))),
                            RAdd(dragRef.initial.y,
                                 RDiv(RInt(p.y - dragRef.startY), ScaleOf(scale))))
                /\ \A k \in DOMAIN nodeOffsets' \ {dragRef.targetId} :
                      k \in DOMAIN nodeOffsets /\ nodeOffsets'[k] = nodeOffsets[k]
                /\ pan' = pan
                /\ scale' = scale]_vars

\* a node is being dragged at a zoom other than 1 and the pointer has moved it
C11_NodeMovedWhileZoomed ==
    /\ dragRef.type = "node"
    /\ scale # 1000
    /\ dragRef.targetId \in DOMAIN nodeOffsets
    /\ nodeOffsets[dragRef.targetId] # dragRef.initial

\* C12: a drag-start event (handleMouseDown or handleNodeDragStart) received while a
\* gesture is active has no effect: the active gesture's type, target, start position
\* and recorded initial pan or offset stay as they were.
C12_DragStartIgnoredWhileDragging ==
    [][dragRef # NoDrag =>
          /\ \A b \in Buttons, on \in BOOLEAN, p \in Pointers :
                handleMouseDown(b, on, p.x, p.y) => dragRef' = dragRef
          /\ \A c \in ColIds(columns), p \in Pointers :
                handleNodeDragStart(c, p.x, p.y) => dragRef' = dragRef]_vars

\* C13: while a drag gesture is active, no change of the selection and no change of
\* the layout moves the pan: the focus does not fire during the gesture.
C13_NoFocusWhileDragging ==
    [][(/\ dragRef # NoDrag
        /\ selectedColumnId' # selectedColumnId \/ layout' # layout)
       => pan' = pan]_vars

\* a node other than the selected one is being dragged, a column was measured anew,
\* and the pan is not where a focus on the selected node would have put it
C13_DragKeptPanOffFocus ==
    /\ dragRef.type = "node"
    /\ dragRef.targetId # selectedColumnId
    /\ offsetOf(nodeOffsets, selectedColumnId) = ZeroPoint
    /\ \E k \in DOMAIN nodeHeights : nodeHeights[k] = 40
    /\ selectedColumnId \in DOMAIN layout
    /\ pan # focusTarget(layout, nodeOffsets, scale, selectedColumnId)

\* C14: in every reachable state the scale lies in [0.1, 3], whatever wheel steps and
\* zoom-button presses were made.
C14_ScaleInRange == MinScale <= scale /\ scale <= MaxScale

\* a wheel step that asked for a scale below the range left it at the lower limit
C14_WheelClampedAtLowerLimit ==
    /\ gestures # <<>>
    /\ gestures[Len(gestures)] = "wheel"
    /\ scale = MinScale

\* following parentId from id reaches, within fuel steps and through existing nodes
\* only, a node with no parent
RECURSIVE ReachesRoot(_, _, _)
ReachesRoot(cols, id, fuel) ==
    /\ HasCol(cols, id)
    /\ \/ FindCol(cols, id).parentId = Null
       \/ fuel > 0 /\ ReachesRoot(cols, FindCol(cols, id).parentId, fuel - 1)

\* C15: in every reachable state the parent relation is acyclic and closed: from
\* every node, following parentId reaches an existing node with no parent; no node
\* outlives its parent, after any sequence of branch, close and reset.
C15_ParentRelationWellFounded ==
    \A id \in ColIds(columns) : ReachesRoot(columns, id, Len(columns))

\* a branch was added to a drawn tree, then closes removed at least two nodes, and a
\* branch is still standing
C15_BranchedAndClosed ==
    /\ hasStarted
    /\ nextUid > CanvasNodes + 1
    /\ Len(columns) < CanvasNodes
    /\ Len(columns) > 1

IsPrefix(a, b) == Len(a) <= Len(b) /\ SubSeq(b, 1, Len(a)) = a

\* C16: for every node present before and after a step, its messages before the step
\* are a prefix of its messages after it (same ids and roles, in the same order), and
\* the text of each of them before the step is a prefix of its text after it.
C16_MessagesAppendOnly ==
    [][\A i \in DOMAIN columns, j \in DOMAIN columns' :
          columns[i].id = columns'[j].id =>
             LET before == columns[i].messages
                 after == columns'[j].messages
             IN  /\ Len(before) <= Len(after)
                 /\ \A k \in DOMAIN before :
                       /\ after[k].id = before[k].id
                       /\ after[k].role = before[k].role
                       /\ IsPrefix(before[k].text, after[k].text)]_vars

\* an answer that received a chunk and then the error notice, in a node that holds
\* the question before it
C16_AnswerGrewTwice ==
    \E i \in DOMAIN columns :
       \E k \in DOMAIN columns[i].messages :
          /\ k > 1
          /\ columns[i].messages[k].role = Model
          /\ columns[i].messages[k].text = <<"X">> \o ErrorNotice

\* the ids of the messages buildHistoryForColumn takes from cols for target
SentMessageIds(cols, target) ==
    LET path == historyPath(cols, target, <<>>)
    IN  UNION {{m.id : m \in {relevantMessages(path, i)[k] :
                                 k \in DOMAIN relevantMessages(path, i)}} :
                 i \in DOMAIN path}

\* C17: when a request is issued, the context it sends contains no message that is
\* then a streaming assistant placeholder, neither its own nor another stream's (and
\* so not the request's own user message either, which precedes its placeholder).
C17_NoStreamingPlaceholderInContext ==
    [][\A s \in streams' :
          (\A x \in streams : x.msg # s.msg) =>
             /\ timers # <<>>
             /\ s.history = buildHistoryForColumn(s.col, Head(timers).columns)
             /\ \A x \in streams' :
                   x.msg \notin SentMessageIds(Head(timers).columns, s.col)]_vars


\* C18 helper: the resolvable part of the tree, a column whose parentId names no column
\* being its top
ResolvablePart(cols) ==
    [i \in DOMAIN cols |->
        IF cols[i].parentId # Null /\ ~HasCol(cols, cols[i].parentId)
        THEN [cols[i] EXCEPT !.parentId = Null, !.parentMessageId = Null,
                             !.contextSnippet = NullText]
        ELSE cols[i]]

\* C18: buildHistoryForColumn on a tree where a parentId toward the root names no
\* column returns the linearisation of the resolvable part of the path (the walk stops
\* at the last column found), and the empty history when the target itself is not found.
C18_WalkStopsAtUnresolvable ==
    history.target # Null =>
        IF ~HasCol(columns, history.target)
        THEN history.result = <<>>
        ELSE PathWellFormed(ResolvablePart(columns), history.target)
             => history.result = ExpectedHistory(ResolvablePart(columns), history.target)

\* a linearised target whose grandparent id names no column, with a non-empty result
C18_DanglingGrandparent ==
    /\ history.target # Null
    /\ HasCol(columns, history.target)
    /\ LET col == FindCol(columns, history.target)
       IN  /\ col.parentId # Null
           /\ HasCol(columns, col.parentId)
           /\ FindCol(columns, col.parentId).parentId = MissingId
           /\ FindCol(columns, col.parentId).contextSnippet # NullText
           /\ col.messages # <<>>
    /\ PathWellFormed(ResolvablePart(columns), history.target)
    /\ ~HasCol(columns, MissingId)
    /\ Len(history.result) >= 2

\* C19: in every state the layout is calculateLayout of the current tree and the
\* current height map: each tree or height change is followed, within the same step,
\* by the result for the newest snapshot, so no result of outdated inputs is ever in
\* place after a newer one.
C19_LayoutIsOfCurrentSnapshot ==
    layout = calculateLayout(columns, nodeHeights)

\* a node was branched off and a node was measured at a new height: the layout holds
\* the unmeasured new node and the new height
C19_BranchedAndResized ==
    /\ \E i \in DOMAIN columns :
          /\ columns[i].id \notin DOMAIN nodeHeights
          /\ columns[i].id \in DOMAIN layout
          /\ layout[columns[i].id].height = NODE_DEFAULT_HEIGHT
    /\ \E id \in DOMAIN nodeHeights :
          /\ nodeHeights[id] = 40
          /\ id \in DOMAIN layout
          /\ layout[id].height = 40

-----------------------------------------------------------------------------
Pending(id) == HasCol(columns, id) /\ FindCol(columns, id).isThinking

\* C21: when every queued timer fires and every request settles (completes or fails),
\* a node whose isThinking flag is set is eventually either closed or has the flag
\* cleared.
C21_PendingEventuallyCleared ==
    \A id \in 1 .. MaxUid : Pending(id) ~> ~Pending(id)

\* a node whose request failed: the notice ends its answer, no request is left for it
\* and its flag is clear
C21_ClearedAfterFailure ==
    \E i \in DOMAIN columns :
        /\ ~columns[i].isThinking
        /\ columns[i].parentId # Null
        /\ columns[i].messages # <<>>
        /\ LET last == columns[i].messages[Len(columns[i].messages)]
           IN  last.role = Model /\ last.text = ErrorNotice
        /\ \A s \in streams : s.col # columns[i].id
        /\ \A k \in DOMAIN timers : timers[k].col # columns[i].id

\* the lowest bottom edge among id and its descendants
SubtreeBottom(id) ==
    LET bottoms == {RectBottom(layout[d]) : d \in SubtreeOf(columns, id)}
    IN  CHOOSE b \in bottoms : \A o \in bottoms : o <= b

\* C22: among the children of a node, in list order, the first has its top at the
\* parent's top and each later one has its top NODE_GAP_Y below the lowest bottom of
\* the previous sibling's subtree; the roots are stacked the same way from top 0.
C22_SiblingsStackBelowSubtrees ==
    \A p \in ColIds(columns) \cup {Null} :
        LET children == getChildren(columns, p)
        IN  \A j \in DOMAIN children :
               RectTop(layout[children[j].id]) =
                  IF j = 1
                  THEN (IF p = Null THEN 0 ELSE RectTop(layout[p]))
                  ELSE SubtreeBottom(children[j - 1].id) + NODE_GAP_Y

\* two roots, the first with two children of which the earlier is taller than the
\* parent, so that the second root starts below a child and not below the first root
C22_SecondRootBelowChild ==
    /\ Len(getChildren(columns, Null)) = 2
    /\ LET r1 == getChildren(columns, Null)[1].id
           r2 == getChildren(columns, Null)[2].id
       IN  /\ Len(getChildren(columns, r1)) = 2
           /\ layout[r1].height = 40
           /\ layout[getChildren(columns, r1)[1].id].height = 300
           /\ RectTop(layout[r2]) > RectBottom(layout[r1]) + NODE_GAP_Y

\* what positionNode returns for id when it places id where the layout has it
ReturnedBottom(id) ==
    positionNode(columns, nodeHeights, id, layout[id].x, RectTop(layout[id]), EmptyMap).bottom

\* C23: the bottom positionNode returns for a node is its own bottom for a leaf, else
\* the larger of its own bottom and the bottom returned for its last child, and no
\* node of its subtree has its bottom edge lower.
C23_ReturnedBottomCoversSubtree ==
    \A id \in DOMAIN layout :
        LET children == getChildren(columns, id)
            own == RectBottom(layout[id])
        IN  /\ ReturnedBottom(id) =
                  IF children = <<>> THEN own
                  ELSE Max(own, ReturnedBottom(children[Len(children)].id))
            /\ \A d \in SubtreeOf(columns, id) : RectBottom(layout[d]) <= ReturnedBottom(id)

\* both cases of the maximum occur in one layout: a node taller than the stack of its
\* children, and a node whose last child's subtree reaches below it
C23_BothBranchesOfMax ==
    \E a \in DOMAIN layout, b \in DOMAIN layout :
        /\ getChildren(columns, a) # <<>>
        /\ getChildren(columns, b) # <<>>
        /\ ReturnedBottom(a) = RectBottom(layout[a])
        /\ LET ca == getChildren(columns, a)
           IN  ReturnedBottom(ca[Len(ca)].id) < RectBottom(layout[a])
        /\ ReturnedBottom(b) > RectBottom(layout[b])

\* C24: every height of the layout is at least NODE_DEFAULT_HEIGHT, whatever height was
\* measured for the node, and a node without a measurement has exactly the default.
C24_HeightsAtLeastDefault ==
    \A id \in DOMAIN layout :
        /\ layout[id].height >= NODE_DEFAULT_HEIGHT
        /\ id \notin DOMAIN nodeHeights => layout[id].height = NODE_DEFAULT_HEIGHT

\* C25: a canvas drag records the pan and the pointer at drag start; the record
\* changes only by a drag start or the pointer-up, so not by a wheel, a zoom button or
\* a focus; every pointer move of the drag sets pan to the recorded pan plus the
\* pointer's screen displacement since drag start; with no gesture active a pointer
\* move leaves pan and every offset as they were.
C25_PanDragFollowsPointer ==
    [][/\ (dragRef.type = "canvas" /\ dragRef' # dragRef)
          => \/ dragRef' = NoDrag
             \/ dragRef'.initial \in {pan, offsetOf(nodeOffsets, dragRef'.targetId)}
       /\ \A b \in Buttons, p \in Pointers :
             (handleMouseDown(b, FALSE, p.x, p.y) /\ dragRef' # dragRef)
             => /\ dragRef'.type = "canvas"
                /\ dragRef'.initial = pan
                /\ dragRef'.startX = p.x /\ dragRef'.startY = p.y
                /\ pan' = pan
       /\ \A p \in Pointers :
             handleMouseMove(p.x, p.y)
             => /\ dragRef.type = "canvas"
                   => /\ pan' = Point(RAdd(dragRef.initial.x, RInt(p.x - dragRef.startX)),
                                      RAdd(dragRef.initial.y, RInt(p.y - dragRef.startY)))
                      /\ nodeOffsets' = nodeOffsets
                /\ dragRef = NoDrag => pan' = pan /\ nodeOffsets' = nodeOffsets]_vars

\* a canvas drag during which the wheel zoomed, and whose pan is the recorded pan
\* moved by the displacement to a pointer position other than the start
C25_PannedAfterZoom ==
    /\ dragRef.type = "canvas"
    /\ gestures = <<"pan", "wheel">>
    /\ scale # 1000
    /\ \E p \in Pointers :
          /\ p.x # dragRef.startX
          /\ pan = Point(RAdd(dragRef.initial.x, RInt(p.x - dragRef.startX)),
                         RAdd(dragRef.initial.y, RInt(p.y - dragRef.startY)))

\* the fields of a column other than its messages
ColumnFrame(col) ==
    <<col.id, col.parentId, col.parentMessageId, col.contextSnippet, col.isThinking,
      col.isCollapsed, Len(col.messages)>>

\* C26: a response chunk leaves the number and order of the nodes, every field of
\* every node other than its messages and the number of messages of every node as
\* they were; the only message it may change is the last message of its own node,
\* only when that message has the model role, and then only by appending the chunk to
\* its text.
C26_ChunkTouchesOnlyLastAnswer ==
    [][\A s \in streams, t \in ChunkTexts :
          streamChunk(s, t)
          => /\ Len(columns') = Len(columns)
             /\ \A i \in DOMAIN columns :
                   /\ ColumnFrame(columns'[i]) = ColumnFrame(columns[i])
                   /\ \A k \in DOMAIN columns[i].messages :
                         LET old == columns[i].messages[k]
                             new == columns'[i].messages[k]
                         IN  IF /\ columns[i].id = s.col
                                /\ k = Len(columns[i].messages)
                                /\ old.role = Model
                             THEN new = [old EXCEPT !.text = old.text \o t]
                             ELSE new = old]_vars

\* a chunk was delivered to a branch: its stream has counted one, the branch's last
\* message is the stream's placeholder holding the chunk, after the branch's prompt
C26_ChunkInBranch ==
    \E s \in streams :
        /\ s.n = MaxChunks
        /\ HasCol(columns, s.col)
        /\ LET col == FindCol(columns, s.col)
           IN  /\ col.parentId # Null
               /\ Len(col.messages) = 2
               /\ col.messages[1].role = User
               /\ col.messages[2] = Message(s.msg, Model, <<"X">>)

\* C27: the minimap renders nothing for a layout without nodes; for the layout and
\* the offsets of every state the world box has positive width and height, so the
\* fit ratio is defined and positive, and every node's rectangle lies within the map
\* of MapW by MapH pixels.
C27_MinimapFits ==
    /\ ~Minimap(EmptyMap, nodeOffsets).rendered
    /\ DOMAIN layout # {} =>
          LET m == Minimap(layout, nodeOffsets)
          IN  /\ m.rendered
              /\ m.worldW.n > 0 /\ m.worldH.n > 0
              /\ m.ratio.n > 0
              /\ \A id \in DOMAIN layout :
                    LET r == m.nodes[id]
                    IN  /\ RLeq(RInt(0), r.left)
                        /\ RLeq(RAdd(r.left, r.width), RInt(MapW))
                        /\ RLeq(RInt(0), r.top)
                        /\ RLeq(RAdd(r.top, r.height), RInt(MapH))

\* a dragged node widened the world so that the width limits the ratio, and a node
\* of another measured height is drawn too
C27_DraggedNodeOnMap ==
    /\ \E id \in DOMAIN nodeOffsets : nodeOffsets[id].x.n < 0
    /\ \E a \in DOMAIN layout, b \in DOMAIN layout : layout[a].height # layout[b].height
    /\ LET m == Minimap(layout, nodeOffsets)
       IN  /\ m.rendered
           /\ m.ratio = RDiv(RInt(MapW), m.worldW)
           /\ m.ratio # RDiv(RInt(MapH), m.worldH)

\* C28: in every state the height map and the offset map have entries only for nodes
\* of the tree.
C28_MapsOnlyForTreeNodes ==
    /\ DOMAIN nodeHeights \subseteq ColIds(columns)
    /\ DOMAIN nodeOffsets \subseteq ColIds(columns)

\* what precedes col's own messages when a fork message may be missing: an ancestor
\* without the fork message contributes all of its messages, and the notice for the
\* recorded span follows in either case
RECURSIVE ContextBeforeAnyFork(_, _)
ContextBeforeAnyFork(cols, col) ==
    IF col.parentId = Null THEN <<>>
    ELSE LET p == FindCol(cols, col.parentId)
             forks == {j \in DOMAIN p.messages : p.messages[j].id = col.parentMessageId}
             last == IF forks = {} THEN Len(p.messages) ELSE CHOOSE j \in forks : TRUE
             kept == [j \in 1 .. last |-> [role |-> p.messages[j].role,
                                           text |-> p.messages[j].text]]
             notice == IF col.contextSnippet # NullText
                       THEN <<[role |-> User, text |-> BranchNotice(col.contextSnippet)]>>
                       ELSE <<>>
         IN  ContextBeforeAnyFork(cols, p) \o kept \o notice

\* C29: an ancestor on the path that has no message with the next node's
\* parentMessageId contributes all of its messages, untruncated, and the notice for the
\* next node's recorded span still follows them; the rest of the history is as for
\* matching forks.
C29_MissingForkKeepsAllMessages ==
    (history.target # Null /\ HasCol(columns, history.target)) =>
        LET cols == ResolvablePart(columns)
            col == FindCol(cols, history.target)
        IN  history.result =
               ContextBeforeAnyFork(cols, col)
               \o [j \in DOMAIN col.messages |-> [role |-> col.messages[j].role,
                                                  text |-> col.messages[j].text]]

\* a linearised target with a recorded span whose parent has HistMessages messages,
\* none of them the fork message
C29_ForkMessageMissing ==
    /\ history.target # Null
    /\ HasCol(columns, history.target)
    /\ LET col == FindCol(columns, history.target)
       IN  /\ col.parentId # Null
           /\ HasCol(columns, col.parentId)
           /\ col.contextSnippet # NullText
           /\ LET p == FindCol(columns, col.parentId)
              IN  /\ Len(p.messages) = HistMessages
                  /\ ~HasMessage(p, col.parentMessageId)
                  /\ Len(history.result) = HistMessages + 1 + Len(col.messages)

====
